---- MODULE Spec2Model ----
(***************************************************************************)
(* The busy-record Flyer of prjemian/ipython_mintvm.                       *)
(*                                                                         *)
(* Two implementations of the same four-method Flyer are modelled side by  *)
(* side, selected by the variable impl:                                    *)
(*   "MyFlyer"          the "final, working Flyer" notebook                *)
(*   "BusyFlyerDevice"  notebooks/issue3.ipynb                             *)
(* kickoff() = arm, complete() = wait, describe_collect() = schema,        *)
(* collect() = drain.  The caller runs one method at a time (pc); the      *)
(* EPICS side (the busy record, the pseudo-controller, monitor delivery)   *)
(* runs concurrently with the caller, between the statements of kickoff(). *)
(***************************************************************************)
EXTENDS Integers, Sequences, FiniteSets, TLC

\* ------------------------------------------------------------ bounds
MaxKick == 2
MaxLen == 2
MaxTime == 2
\* the timeout given to a wait on the completion status, in ticks of the clock
WaitTimeout == 1
\* the bound configured for a phase of the taxi/fly plan, in ticks of the clock
PhaseBound == 1

\* ------------------------------------------------------------ constants
None == 0

Impls == {"MyFlyer", "BusyFlyerDevice"}
Names == {"ifly", "bflyer"}
\* The sample the controller stores at position k (from 0) of a waveform: the
\* positions of its step scan, and the signal read at each.
XSample(k) == 10 + k
YSample(k) == 20 + k

\* class BusyStatus(str, enum.Enum)
BusyStatus_busy == "Busy"
BusyStatus_done == "Done"
BusyStates == {BusyStatus_busy, BusyStatus_done}

VARIABLES
    impl,      \* which class the instance is
    name,      \* the ophyd name given to the instance (name=...)
    pc,        \* the caller's position: "idle" or the next statement of kickoff()
    ref,       \* self._completion_status / self.complete_status: None or a status id
    nfut,      \* number of DeviceStatus objects created for completion so far
    status,    \* the DeviceStatus objects, by id: [done, success]
    t0,        \* self.t0
    now,       \* time.time()
    flag,      \* the busy record's value in the IOC
    seen,      \* the value the client last received for the busy record
    notifs,    \* monitor events of the busy record not yet delivered
    putq,      \* put(Busy) requests not yet processed by the IOC
    subs,      \* number of cb closures subscribed to the busy signal
    tArr,      \* waveform t_array (populated part)
    xArr,      \* waveform x_array (populated part)
    yArr,      \* waveform y_array (populated part)
    gen,       \* the generator returned by the last collect()
    last,      \* the record the generator yielded last
    ret,       \* what the last method called by the caller returned or raised
    cbErr,     \* the exception last raised by cb in the notification context
    hist,      \* history of the run, read only by the properties
    wait,      \* the RunEngine's wait on the status complete() returned
    tpc,       \* the position of TaxiFlyScanDevice.plan
    busyrec,   \* the busy records prj:tf:taxi and prj:tf:fly
    writes,    \* what the plan has written so far: <<signal, value>>
    since,     \* the time of the plan's last set
    ifly       \* what the module-level name ifly is bound to, for this instance

vars == <<impl, name, pc, ref, nfut, status, t0, now, flag, seen, notifs, putq,
          subs, tArr, xArr, yArr, gen, last, ret, cbErr, hist,
          wait, tpc, busyrec, writes, since, ifly>>

\* the variables of the Flyer and of its busy record
flyer == <<impl, name, pc, ref, nfut, status, t0, now, flag, seen, notifs, putq,
           subs, tArr, xArr, yArr, gen, last, ret, cbErr, hist, ifly>>
\* the variables of the taxi/fly plan and of its two busy records
taxifly == <<tpc, busyrec, writes, since>>

waves == <<tArr, xArr, yArr>>
epics == <<flag, seen, notifs, putq>>

\* ------------------------------------------------------------ helpers

\* Python's `a in b` for two str: a is a substring of b.
StrIn(a, b) ==
    \E i \in 1..(Len(b) + 1) : \E j \in (i - 1)..Len(b) : SubSeq(b, i, j) = a

Min(S) == CHOOSE m \in S : \A k \in S : m <= k

EmptyMap == [k \in {} |-> 0]

\* ophyd.DeviceStatus(...): not done, not successful
DeviceStatus == [done |-> FALSE, success |-> FALSE]

\* status._finished(success=...): the first call decides, later calls return at once
Finished(s, success) ==
    IF s.done THEN s ELSE [done |-> TRUE, success |-> success]

\* The three states of the cycle, read off the controller's fields.
CycleState ==
    IF ref = None THEN "Idle"
    ELSE IF status[ref].done THEN "Completed" ELSE "Armed"

NoRet == [kind |-> "none", h |-> None, done |-> FALSE, success |-> FALSE,
          err |-> "none", early |-> FALSE, schema |-> EmptyMap]

\* A generator of collect(): st is none, created (body not started), running,
\* finished (StopIteration) or failed (an exception left the body); n is the
\* length range() was given, i the next index.  from, again, cnt and stable
\* are history: the cycle state and whether this cycle had been drained when
\* the body started, the three populated counts then, and whether the
\* waveforms have been left alone since.
NoGen == [st |-> "none", n |-> 0, i |-> 0, err |-> "none",
          from |-> "none", again |-> FALSE, stable |-> TRUE, cnt |-> <<0, 0, 0>>]

NoRec == [idx |-> -1, time |-> 0, data |-> EmptyMap, timestamps |-> EmptyMap]

\* doneSinceArm: a Done event reached a subscribed cb since kickoff() returned;
\* reResolved: cb ran on Done with the current status already done;
\* drained: a collect() of a Completed cycle has started since the last kickoff();
\* started: the IOC has processed a put(Busy) since the last status was created;
\* ran: the controller has set the record back to Done after that.
NoHist == [doneSinceArm |-> FALSE, reResolved |-> FALSE, drained |-> FALSE,
           started |-> FALSE, ran |-> FALSE]

\* nothing is being waited for
NoWait == [h |-> None, since |-> 0]

\* the two phases of TaxiFlyScanDevice, in the order plan() runs them
Phases == <<"taxi", "fly">>

\* A busy record with its sseq record: val is the record's value, put the value
\* of a put-with-callback ("none": no put), req how far that put has got
\* (none, sent, processing, complete in the IOC, done: the client has been
\* told), at the time the record went Busy.
BusyRecord(v) == [val |-> v, put |-> "none", req |-> "none", at |-> 0]

\* the plan has not been run: both records Done, nothing written
TaxiFlyIdle ==
    /\ tpc = "idle"
    /\ busyrec = [ch \in {"taxi", "fly"} |-> BusyRecord(BusyStatus_done)]
    /\ writes = <<>>
    /\ since = 0

\* ------------------------------------------------------------ names of the data keys

\* MyFlyer hard-codes ifly_tArr, ifly_xArr, ifly_yArr; BusyFlyerDevice uses
\* item.name, which ophyd builds as <device name>_<attribute>.
KeyT == IF impl = "MyFlyer" THEN "ifly_tArr" ELSE name \o "_" \o "time"
KeyX == IF impl = "MyFlyer" THEN "ifly_xArr" ELSE name \o "_" \o "axis"
KeyY == IF impl = "MyFlyer" THEN "ifly_yArr" ELSE name \o "_" \o "signal"

Structure(pv) == [source |-> pv, dtype |-> "number", shape |-> <<1>>]

\* describe_collect(): {self.name: {key: structure}}
DescribeCollectResult ==
    name :> ((KeyX :> Structure("prj:x_array"))
             @@ (KeyY :> Structure("prj:y_array"))
             @@ (KeyT :> Structure("prj:t_array")))

\* ------------------------------------------------------------ the record of index i

\* ifly = MyFlyer("prj:", name="ifly"): the module-level name is the instance
\* itself, its waveforms are the instance's own
IflyIsSelf == [self |-> TRUE, tArr |-> <<>>, xArr |-> <<>>, yArr |-> <<>>]

\* the waveforms collect() reads: MyFlyer names them ifly.tArr, ifly.xArr,
\* ifly.yArr, through the module-level name; BusyFlyerDevice goes through self
ReadsIfly == impl = "MyFlyer" /\ ~ifly.self
WaveT == IF ReadsIfly THEN ifly.tArr ELSE tArr
WaveX == IF ReadsIfly THEN ifly.xArr ELSE xArr
WaveY == IF ReadsIfly THEN ifly.yArr ELSE yArr

\* data=dict(...): MyFlyer takes the time channel from the clock, BusyFlyerDevice
\* from the time waveform, both minus self.t0
Data(i) ==
    (KeyT :> (IF impl = "MyFlyer" THEN now - t0 ELSE WaveT[i + 1] - t0))
    @@ (KeyX :> WaveX[i + 1])
    @@ (KeyY :> WaveY[i + 1])

\* variant: the timestamps keyed by the attribute names, without the device's name
TimestampsAttr(i) ==
    LET t == IF impl = "MyFlyer" THEN WaveT[i + 1] ELSE now
    IN ("time" :> t) @@ ("axis" :> t) @@ ("signal" :> t)

\* timestamps=dict(...): MyFlyer gives every key t = tArr[i], BusyFlyerDevice
\* gives every key t = time.time()
Timestamps(i) ==
    LET t == IF impl = "MyFlyer" THEN WaveT[i + 1] ELSE now
    IN (KeyT :> t) @@ (KeyX :> t) @@ (KeyY :> t)

Record(i) == [idx |-> i, time |-> now, data |-> Data(i), timestamps |-> Timestamps(i)]

\* range(len(ifly.tArr.wave.value)) / range(int(self.time.number_read.value))
CollectCount == Len(WaveT)

\* wave.value[i] of the three waveforms raises IndexError past the populated part
CanRead(i) == i < Len(WaveT) /\ i < Len(WaveX) /\ i < Len(WaveY)

\* ------------------------------------------------------------ the callback

\* variant: `if self.busy.state.value:`, the truth value of the string
CbTestTruthy(v) == v # ""

\* variant: the sentinel misspelt in lower case
CbTestLower(v) == StrIn(v, "done")

\* if self.busy.state.value in (BusyStatus.done):
CbTest(v) == StrIn(v, BusyStatus_done)

\* cb(): reads the signal's value, then self._completion_status._finished(success=True)
Cb(v) ==
    IF CbTest(v)
    THEN IF ref = None
         THEN /\ cbErr' = "AttributeError"
              /\ UNCHANGED status
         ELSE /\ status' = [status EXCEPT ![ref] = Finished(@, TRUE)]
              /\ cbErr' = cbErr
    ELSE UNCHANGED <<status, cbErr>>

\* the history after cb has been given the value v
Seen(v) ==
    LET live == v = BusyStatus_done /\ ref # None
    IN [hist EXCEPT !.reResolved = @ \/ (live /\ status[ref].done),
                    !.doneSinceArm = @ \/ (live /\ pc = "idle")]

\* ------------------------------------------------------------ Init

Init ==
    /\ impl \in Impls
    /\ name \in Names
    /\ pc = "idle"
    /\ ref = None
    /\ nfut = 0
    /\ status = [f \in 1..MaxKick |-> DeviceStatus]
    /\ t0 = 0
    /\ now = 0
    /\ flag = BusyStatus_done
    /\ seen = BusyStatus_done
    /\ notifs = <<>>
    /\ putq = 0
    /\ subs = 0
    /\ \E old \in {0, 1} :
          /\ tArr = IF old = 1 THEN <<0>> ELSE <<>>
          /\ xArr = IF old = 1 THEN <<XSample(0)>> ELSE <<>>
          /\ yArr = IF old = 1 THEN <<YSample(0)>> ELSE <<>>
    /\ gen = NoGen
    /\ last = NoRec
    /\ ret = NoRet
    /\ cbErr = "none"
    /\ hist = NoHist
    /\ wait = NoWait
    /\ TaxiFlyIdle
    /\ ifly = IflyIsSelf

\* ------------------------------------------------------------ kickoff()

\* the order of the statements of kickoff() after the status is created
KickoffOrder ==
    IF impl = "MyFlyer"
    THEN <<"subscribe", "t0", "put", "return">>
    ELSE <<"t0", "put", "subscribe", "return">>

After(step) ==
    LET k == CHOOSE k \in 1..Len(KickoffOrder) : KickoffOrder[k] = step
    IN KickoffOrder[k + 1]

\* variant: a status object still referenced is reset and used again
Kickoff_createReuse ==
    /\ pc = "idle"
    /\ nfut < MaxKick
    /\ nfut' = nfut + 1
    /\ ref' = IF ref = None THEN nfut + 1 ELSE ref
    /\ status' = [status EXCEPT ![ref'] = DeviceStatus]
    /\ pc' = KickoffOrder[1]
    /\ ret' = NoRet
    /\ hist' = [hist EXCEPT !.doneSinceArm = FALSE, !.drained = FALSE,
                            !.started = FALSE, !.ran = FALSE]
    /\ UNCHANGED <<impl, name, t0, now, epics, subs, waves, gen, last, cbErr>>
    /\ UNCHANGED <<wait, taxifly, ifly>>

\* self._completion_status = ophyd.DeviceStatus(self)
Kickoff_create ==
    /\ pc = "idle"
    /\ nfut < MaxKick
    /\ nfut' = nfut + 1
    /\ ref' = nfut + 1
    /\ pc' = KickoffOrder[1]
    /\ ret' = NoRet
    /\ hist' = [hist EXCEPT !.doneSinceArm = FALSE, !.drained = FALSE,
                            !.started = FALSE, !.ran = FALSE]
    /\ UNCHANGED <<impl, name, status, t0, now, epics, subs, waves, gen, last, cbErr>>
    /\ UNCHANGED <<wait, taxifly, ifly>>

\* variant: subscribe(cb, run=False), the callback is added and not run
Kickoff_subscribeNoRun ==
    /\ pc = "subscribe"
    /\ subs' = subs + 1
    /\ pc' = After("subscribe")
    /\ UNCHANGED <<impl, name, ref, nfut, status, t0, now, epics, waves, gen, last,
                   ret, cbErr, hist>>
    /\ UNCHANGED <<wait, taxifly, ifly>>

\* self.busy.state.subscribe(cb): the callback is added and run at once with the
\* value the signal holds
Kickoff_subscribe ==
    /\ pc = "subscribe"
    /\ subs' = subs + 1
    /\ pc' = After("subscribe")
    /\ Cb(seen)
    /\ hist' = Seen(seen)
    /\ UNCHANGED <<impl, name, ref, nfut, t0, now, epics, waves, gen, last, ret>>
    /\ UNCHANGED <<wait, taxifly, ifly>>

\* self.t0 = time.time()
Kickoff_t0 ==
    /\ pc = "t0"
    /\ t0' = now
    /\ pc' = After("t0")
    /\ UNCHANGED <<impl, name, ref, nfut, status, now, epics, subs, waves, gen, last,
                   ret, cbErr, hist>>
    /\ UNCHANGED <<wait, taxifly, ifly>>

\* self.busy.state.put(BusyStatus.busy): a request, not waited for
Kickoff_put ==
    /\ pc = "put"
    /\ putq' = putq + 1
    /\ pc' = After("put")
    /\ UNCHANGED <<impl, name, ref, nfut, status, t0, now, flag, seen, notifs, subs,
                   waves, gen, last, ret, cbErr, hist>>
    /\ UNCHANGED <<wait, taxifly, ifly>>

\* kickoff_status = ophyd.DeviceStatus(self); kickoff_status._finished(success=True)
Kickoff_return ==
    /\ pc = "return"
    /\ pc' = "idle"
    /\ LET ks == Finished(DeviceStatus, TRUE)
       IN ret' = [NoRet EXCEPT !.kind = "status", !.done = ks.done,
                               !.success = ks.success]
    /\ UNCHANGED <<impl, name, ref, nfut, status, t0, now, epics, subs, waves, gen,
                   last, cbErr, hist>>
    /\ UNCHANGED <<wait, taxifly, ifly>>

\* ------------------------------------------------------------ complete()

\* MyFlyer raises RuntimeError("No collection in progress") when the status is
\* None; BusyFlyerDevice returns self.complete_status whatever it is.
CompleteResult ==
    IF impl = "MyFlyer" /\ ref = None
    THEN [NoRet EXCEPT !.kind = "error", !.err = "RuntimeError"]
    ELSE [NoRet EXCEPT !.kind = "handle", !.h = ref, !.early = hist.doneSinceArm]

\* variant: complete() puts Busy once more before it returns the status
CompletePut ==
    /\ pc = "idle"
    /\ ret' = CompleteResult
    /\ putq' = putq + 1
    /\ UNCHANGED <<impl, name, pc, ref, nfut, status, t0, now, flag, seen, notifs,
                   subs, waves, gen, last, cbErr, hist>>
    /\ UNCHANGED <<wait, taxifly, ifly>>

Complete ==
    /\ pc = "idle"
    /\ ret' = CompleteResult
    /\ UNCHANGED <<impl, name, pc, ref, nfut, status, t0, now, epics, subs, waves,
                   gen, last, cbErr, hist>>
    /\ UNCHANGED <<wait, taxifly, ifly>>

\* ------------------------------------------------------------ the wait on complete()'s status

\* RE(bluesky.plans.fly([ifly])): after complete() the RunEngine waits on the
\* status it was given.
Wait_begin ==
    /\ pc = "idle"
    /\ ret.kind = "handle"
    /\ ret.h # None
    /\ pc' = "wait"
    /\ wait' = [h |-> ret.h, since |-> now]
    /\ UNCHANGED <<impl, name, ref, nfut, status, t0, now, epics, subs, waves, gen,
                   last, ret, cbErr, hist, taxifly, ifly>>

\* The wait ends when the status is done, and no sooner: the status was made
\* by ophyd.DeviceStatus(self), with no timeout.
Wait_end ==
    /\ pc = "wait"
    /\ status[wait.h].done
    /\ pc' = "idle"
    /\ ret' = [NoRet EXCEPT !.kind = "waited", !.h = wait.h, !.done = TRUE,
                            !.success = status[wait.h].success]
    /\ wait' = NoWait
    /\ UNCHANGED <<impl, name, ref, nfut, status, t0, now, epics, subs, waves, gen,
                   last, cbErr, hist, taxifly, ifly>>

\* ------------------------------------------------------------ describe_collect()

\* variant: describe_collect() also returns the status object to None
DescribeCollectReset ==
    /\ pc = "idle"
    /\ ref' = None
    /\ ret' = [NoRet EXCEPT !.kind = "schema", !.schema = DescribeCollectResult]
    /\ UNCHANGED <<impl, name, pc, nfut, status, t0, now, epics, subs, waves,
                   gen, last, cbErr, hist>>
    /\ UNCHANGED <<wait, taxifly, ifly>>

DescribeCollect ==
    /\ pc = "idle"
    /\ ret' = [NoRet EXCEPT !.kind = "schema", !.schema = DescribeCollectResult]
    /\ UNCHANGED <<impl, name, pc, ref, nfut, status, t0, now, epics, subs, waves,
                   gen, last, cbErr, hist>>
    /\ UNCHANGED <<wait, taxifly, ifly>>

\* ------------------------------------------------------------ collect()

\* variant: collect() is a plain function, the reference is reset at the call
CollectEager ==
    /\ pc = "idle"
    /\ ref' = None
    /\ gen' = [NoGen EXCEPT !.st = "created"]
    /\ last' = NoRec
    /\ ret' = [NoRet EXCEPT !.kind = "generator"]
    /\ UNCHANGED <<impl, name, pc, nfut, status, t0, now, epics, subs, waves,
                   cbErr, hist>>
    /\ UNCHANGED <<wait, taxifly, ifly>>

\* collect() is a generator function: the call runs none of its body
Collect ==
    /\ pc = "idle"
    /\ gen' = [NoGen EXCEPT !.st = "created"]
    /\ last' = NoRec
    /\ ret' = [NoRet EXCEPT !.kind = "generator"]
    /\ UNCHANGED <<impl, name, pc, ref, nfut, status, t0, now, epics, subs, waves,
                   cbErr, hist>>
    /\ UNCHANGED <<wait, taxifly, ifly>>

\* next() on the generator.  The first next() runs the body from its start:
\* self._completion_status = None, then range(...) is evaluated once.
CollectNext ==
    /\ pc = "idle"
    /\ gen.st \in {"created", "running"}
    /\ LET first == gen.st = "created"
           g == IF first
                THEN [gen EXCEPT !.n = CollectCount, !.from = CycleState,
                                 !.again = hist.drained,
                                 !.cnt = <<Len(WaveT), Len(WaveX), Len(WaveY)>>]
                ELSE gen
       IN /\ ref' = IF first THEN None ELSE ref
          /\ hist' = IF first
                     THEN [hist EXCEPT !.doneSinceArm = FALSE,
                                       !.drained = @ \/ CycleState = "Completed"]
                     ELSE hist
          /\ IF g.i >= g.n
             THEN /\ gen' = [g EXCEPT !.st = "finished"]
                  /\ last' = last
             ELSE IF ~CanRead(g.i)
             THEN /\ gen' = [g EXCEPT !.st = "failed", !.err = "IndexError"]
                  /\ last' = last
             ELSE /\ gen' = [g EXCEPT !.st = "running", !.i = @ + 1]
                  /\ last' = Record(g.i)
    /\ UNCHANGED <<impl, name, pc, nfut, status, t0, now, epics, subs, waves, ret,
                   cbErr>>
    /\ UNCHANGED <<wait, taxifly, ifly>>

\* ------------------------------------------------------------ the EPICS side

\* The IOC processes a put(Busy): the busy record goes to Busy and posts a
\* monitor event if its value changed.
IocPut ==
    /\ putq > 0
    /\ putq' = putq - 1
    /\ IF flag = BusyStatus_busy
       THEN UNCHANGED <<flag, notifs>>
       ELSE /\ flag' = BusyStatus_busy
            /\ notifs' = Append(notifs, BusyStatus_busy)
    /\ hist' = [hist EXCEPT !.started = TRUE]
    /\ UNCHANGED <<impl, name, pc, ref, nfut, status, t0, now, seen, subs, waves,
                   gen, last, ret, cbErr>>
    /\ UNCHANGED <<wait, taxifly, ifly>>

\* variant: cb, once it has resolved the status, returns the reference to None
DeliverReset ==
    /\ notifs # <<>>
    /\ seen' = Head(notifs)
    /\ notifs' = Tail(notifs)
    /\ IF subs > 0
       THEN /\ Cb(Head(notifs)) /\ hist' = Seen(Head(notifs))
            /\ ref' = IF CbTest(Head(notifs)) THEN None ELSE ref
       ELSE UNCHANGED <<status, cbErr, hist, ref>>
    /\ UNCHANGED <<impl, name, pc, nfut, t0, now, flag, putq, subs, waves, gen,
                   last, ret>>
    /\ UNCHANGED <<wait, taxifly, ifly>>

\* A monitor event reaches the client: the signal takes the value and every
\* subscribed cb runs (they are the same closure over self, so once is enough).
Deliver ==
    /\ notifs # <<>>
    /\ seen' = Head(notifs)
    /\ notifs' = Tail(notifs)
    /\ IF subs > 0
       THEN Cb(Head(notifs)) /\ hist' = Seen(Head(notifs))
       ELSE UNCHANGED <<status, cbErr, hist>>
    /\ UNCHANGED <<impl, name, pc, ref, nfut, t0, now, flag, putq, subs, waves, gen,
                   last, ret>>
    /\ UNCHANGED <<wait, taxifly, ifly>>

\* history: a running generator's waveforms have been written
Touch == gen' = IF gen.st = "running" THEN [gen EXCEPT !.stable = FALSE] ELSE gen

\* The controller, while the record is Busy, stores one more sample in a waveform.
CtrlAppendT ==
    /\ flag = BusyStatus_busy
    /\ Len(tArr) < MaxLen
    /\ tArr' = Append(tArr, now)
    /\ Touch
    /\ UNCHANGED <<impl, name, pc, ref, nfut, status, t0, now, epics, subs, xArr,
                   yArr, last, ret, cbErr, hist>>
    /\ UNCHANGED <<wait, taxifly, ifly>>

CtrlAppendX ==
    /\ flag = BusyStatus_busy
    /\ Len(xArr) < MaxLen
    /\ xArr' = Append(xArr, XSample(Len(xArr)))
    /\ Touch
    /\ UNCHANGED <<impl, name, pc, ref, nfut, status, t0, now, epics, subs, tArr,
                   yArr, last, ret, cbErr, hist>>
    /\ UNCHANGED <<wait, taxifly, ifly>>

CtrlAppendY ==
    /\ flag = BusyStatus_busy
    /\ Len(yArr) < MaxLen
    /\ yArr' = Append(yArr, YSample(Len(yArr)))
    /\ Touch
    /\ UNCHANGED <<impl, name, pc, ref, nfut, status, t0, now, epics, subs, tArr,
                   xArr, last, ret, cbErr, hist>>
    /\ UNCHANGED <<wait, taxifly, ifly>>

\* The controller empties the waveforms for a new scan.
CtrlClear ==
    /\ flag = BusyStatus_busy
    /\ <<tArr, xArr, yArr>> # <<<<>>, <<>>, <<>>>>
    /\ tArr' = <<>> /\ xArr' = <<>> /\ yArr' = <<>>
    /\ Touch
    /\ UNCHANGED <<impl, name, pc, ref, nfut, status, t0, now, epics, subs, last,
                   ret, cbErr, hist>>
    /\ UNCHANGED <<wait, taxifly, ifly>>

\* The controller ends the scan: it sets the busy record back to Done.
CtrlDone ==
    /\ flag = BusyStatus_busy
    /\ flag' = BusyStatus_done
    /\ notifs' = Append(notifs, BusyStatus_done)
    /\ hist' = [hist EXCEPT !.ran = @ \/ hist.started]
    /\ UNCHANGED <<impl, name, pc, ref, nfut, status, t0, now, seen, putq, subs,
                   waves, gen, last, ret, cbErr>>
    /\ UNCHANGED <<wait, taxifly, ifly>>

\* time.time() advances
Tick ==
    /\ now < MaxTime
    /\ now' = now + 1
    /\ UNCHANGED <<impl, name, pc, ref, nfut, status, t0, epics, subs, waves, gen,
                   last, ret, cbErr, hist>>
    /\ UNCHANGED <<wait, taxifly, ifly>>

\* ------------------------------------------------------------ TaxiFlyScanDevice

\* the strings of a busy record's value, by number
EnumStrs == <<"Done", "Busy">>
\* enum_strs[k], counted from 0
EnumStr(k) == EnumStrs[k + 1]

\* the delay DLY1 of the sseq records, in ticks of the clock
Dly == 1

\* variant: enum_strs[0] written instead
StartSentinelZero == EnumStr(0)

\* self.taxi.enum_strs[1], self.fly.enum_strs[1]
StartSentinel == EnumStr(1)

\* the position of plan() after the phase ch is over
AfterPhase(ch) ==
    LET k == CHOOSE k \in 1..Len(Phases) : Phases[k] = ch
    IN IF k < Len(Phases) THEN "before_" \o Phases[k + 1] ELSE "done"

\* ifly.taxi.put(0), run between two runs of the plan: the taxi record is Done
Taxi_put0 ==
    /\ tpc \in {"idle", "done"}
    /\ busyrec' = [busyrec EXCEPT !["taxi"].val = EnumStr(0)]
    /\ UNCHANGED <<flyer, wait, tpc, writes, since>>

\* RE(ifly.plan()): a run of the plan starts
Plan_start ==
    /\ tpc \in {"idle", "done"}
    /\ tpc' = "before_" \o Phases[1]
    /\ writes' = <<>>
    /\ UNCHANGED <<flyer, wait, busyrec, since>>

\* mv(), first message: set -> the signal, a put with callback (put_complete=True)
Plan_set(ch) ==
    /\ tpc = "before_" \o ch
    /\ writes' = Append(writes, <<ch, StartSentinel>>)
    /\ busyrec' = [busyrec EXCEPT ![ch].put = StartSentinel, ![ch].req = "sent"]
    /\ since' = now
    /\ tpc' = "wait_" \o ch
    /\ UNCHANGED <<flyer, wait>>

\* variant: the set is not waited for
Plan_waitSkip(ch) ==
    /\ tpc = "wait_" \o ch
    /\ tpc' = AfterPhase(ch)
    /\ UNCHANGED <<flyer, wait, busyrec, writes, since>>

\* mv(), second message: wait until the put has completed; no timeout is given
Plan_wait(ch) ==
    /\ tpc = "wait_" \o ch
    /\ busyrec[ch].req = "done"
    /\ tpc' = AfterPhase(ch)
    /\ UNCHANGED <<flyer, wait, busyrec, writes, since>>

\* The IOC processes the put: Busy starts the record and its sseq record, and
\* the put completes only when the record is Done again; Done completes at once.
IocProcess(ch) ==
    /\ busyrec[ch].req = "sent"
    /\ busyrec' = [busyrec EXCEPT ![ch] =
                      IF @.put = BusyStatus_busy
                      THEN [@ EXCEPT !.val = BusyStatus_busy, !.req = "processing",
                                     !.at = now]
                      ELSE [@ EXCEPT !.val = BusyStatus_done, !.req = "complete"]]
    /\ UNCHANGED <<flyer, wait, tpc, writes, since>>

\* variant: the link of the sseq record does not reach the busy record
SseqDoneNoLink(ch) ==
    /\ busyrec[ch].val = BusyStatus_busy
    /\ now >= busyrec[ch].at + Dly \/ now = MaxTime
    /\ UNCHANGED vars

\* The sseq record, DLY1 after it was started, writes "Done" to its busy record
\* (the clock stops at MaxTime, which stands for any later time too).
SseqDone(ch) ==
    /\ busyrec[ch].val = BusyStatus_busy
    /\ now >= busyrec[ch].at + Dly \/ now = MaxTime
    /\ busyrec' = [busyrec EXCEPT ![ch].val = BusyStatus_done,
                                  ![ch].req = IF @ = "processing" THEN "complete" ELSE @]
    /\ UNCHANGED <<flyer, wait, tpc, writes, since>>

\* The completion of the put reaches the client: the status of the set is done.
PutCallback(ch) ==
    /\ busyrec[ch].req = "complete"
    /\ busyrec' = [busyrec EXCEPT ![ch].req = "done"]
    /\ UNCHANGED <<flyer, wait, tpc, writes, since>>

\* ifly.taxi.put(0), then RE(ifly.plan()), with the two busy records and the clock
NextTaxi ==
    \/ Taxi_put0
    \/ Plan_start
    \/ \E ch \in {"taxi", "fly"} : PutCallback(ch)
    \/ \E ch \in {"taxi", "fly"} : Plan_set(ch)
    \/ \E ch \in {"taxi", "fly"} : Plan_wait(ch)
    \/ \E ch \in {"taxi", "fly"} : IocProcess(ch)
    \/ \E ch \in {"taxi", "fly"} : SseqDone(ch)
    \/ Tick

\* The flyer protocol: every method of the caller and the busy record's side.
\* The waveforms and the clock stay as Init left them.
Next ==
    \/ Kickoff_create
    \/ Kickoff_subscribe
    \/ Kickoff_t0
    \/ Kickoff_put
    \/ Kickoff_return
    \/ Complete
    \/ DescribeCollect
    \/ Collect
    \/ CollectNext
    \/ IocPut
    \/ Deliver
    \/ CtrlDone

Spec == Init /\ [][Next]_vars

\* The same, with what the scheduling gives: a kickoff() that has started runs
\* to its return, the IOC processes the puts it receives, the controller ends
\* the scan it has started, and the monitor events are delivered.
Fairness ==
    /\ WF_vars(Kickoff_subscribe)
    /\ WF_vars(Kickoff_t0)
    /\ WF_vars(Kickoff_put)
    /\ WF_vars(Kickoff_return)
    /\ WF_vars(IocPut)
    /\ WF_vars(CtrlDone)
    /\ WF_vars(Deliver)

SpecLive == Init /\ [][Next]_vars /\ Fairness

\* The drain of one armed cycle: the instance has been kicked off once, the IOC
\* has processed the put and the controller is writing the waveforms, while the
\* caller collects and the clock runs.
InitData ==
    /\ impl \in Impls
    /\ name \in Names
    /\ pc = "idle"
    /\ ref = 1
    /\ nfut = 1
    /\ \E resolved \in IF impl = "MyFlyer" THEN {TRUE} ELSE BOOLEAN :
          status = [f \in 1..MaxKick |->
                       IF f = 1 /\ resolved
                       THEN Finished(DeviceStatus, TRUE) ELSE DeviceStatus]
    /\ t0 \in 0..MaxTime
    /\ now = t0
    /\ flag = BusyStatus_busy
    /\ seen = BusyStatus_busy
    /\ notifs = <<>>
    /\ putq = 0
    /\ subs = 1
    /\ tArr = <<0>>
    /\ xArr = <<XSample(0)>>
    /\ yArr = <<YSample(0)>>
    /\ gen = NoGen
    /\ last = NoRec
    /\ ret = [NoRet EXCEPT !.kind = "status", !.done = TRUE, !.success = TRUE]
    /\ cbErr = "none"
    /\ hist = NoHist
    /\ wait = NoWait
    /\ TaxiFlyIdle
    /\ ifly = IflyIsSelf

NextData ==
    \/ Collect
    \/ CollectNext
    \/ CtrlAppendT
    \/ CtrlAppendX
    \/ CtrlAppendY
    \/ CtrlClear
    \/ Tick

SpecData == InitData /\ [][NextData]_vars

\* The cycle up to the end of the wait, in time: kickoff(), complete() and the
\* wait on its status, while the busy record's side and the clock run.
NextWait ==
    \/ Kickoff_create
    \/ Kickoff_subscribe
    \/ Kickoff_t0
    \/ Kickoff_put
    \/ Kickoff_return
    \/ Complete
    \/ Wait_begin
    \/ Wait_end
    \/ IocPut
    \/ Deliver
    \/ CtrlDone
    \/ Tick

SpecWait == Init /\ [][NextWait]_vars

\* the plan of the TaxiFlyScanDevice named ifly, no Flyer in use
\* and the two records in whatever state an earlier scan left them
InitTaxi ==
    /\ impl = "MyFlyer"
    /\ name = "ifly"
    /\ pc = "idle"
    /\ ref = None
    /\ nfut = 0
    /\ status = [f \in 1..MaxKick |-> DeviceStatus]
    /\ t0 = 0
    /\ now = 0
    /\ flag = BusyStatus_done
    /\ seen = BusyStatus_done
    /\ notifs = <<>>
    /\ putq = 0
    /\ subs = 0
    /\ tArr = <<>> /\ xArr = <<>> /\ yArr = <<>>
    /\ gen = NoGen
    /\ last = NoRec
    /\ ret = NoRet
    /\ cbErr = "none"
    /\ hist = NoHist
    /\ wait = NoWait
    /\ tpc = "idle"
    /\ busyrec \in [{"taxi", "fly"} ->
                       {BusyRecord(BusyStatus_done)}
                       \cup {[BusyRecord(BusyStatus_busy) EXCEPT !.at = a] :
                                a \in (0 - Dly)..0}]
    /\ writes = <<>>
    /\ since = 0
    /\ ifly = IflyIsSelf

SpecTaxi == InitTaxi /\ [][NextTaxi]_vars

\* The same, with what the scheduling gives: a plan that has started runs on,
\* the IOC processes the puts, the sseq records run to their end, the put
\* callbacks are delivered and time passes.
FairnessTaxi ==
    /\ \A ch \in {"taxi", "fly"} :
          /\ WF_vars(Plan_set(ch))
          /\ WF_vars(Plan_wait(ch))
          /\ WF_vars(IocProcess(ch))
          /\ WF_vars(SseqDone(ch))
          /\ WF_vars(PutCallback(ch))
    /\ WF_vars(Tick)

SpecTaxiLive == InitTaxi /\ [][NextTaxi]_vars /\ FairnessTaxi

\* Two instances: the one observed is not the one the module-level name ifly
\* is bound to.  Both have finished a scan, each with its own waveforms, no
\* controller is writing; the caller collects from the instance observed.
OtherT(k) == 5 + k
OtherX(k) == 30 + k
OtherY(k) == 40 + k

InitTwo ==
    /\ impl \in Impls
    /\ name \in Names
    /\ pc = "idle"
    /\ ref = 1
    /\ nfut = 1
    /\ status = [f \in 1..MaxKick |->
                    IF f = 1 THEN Finished(DeviceStatus, TRUE) ELSE DeviceStatus]
    /\ t0 \in 0..MaxTime
    /\ now = t0
    /\ flag = BusyStatus_done
    /\ seen = BusyStatus_done
    /\ notifs = <<>>
    /\ putq = 0
    /\ subs = 1
    /\ \E n \in 0..MaxLen :
          /\ tArr = [k \in 1..n |-> k - 1]
          /\ xArr = [k \in 1..n |-> XSample(k - 1)]
          /\ yArr = [k \in 1..n |-> YSample(k - 1)]
    /\ \E m \in 0..MaxLen :
          ifly = [self |-> FALSE,
                  tArr |-> [k \in 1..m |-> OtherT(k - 1)],
                  xArr |-> [k \in 1..m |-> OtherX(k - 1)],
                  yArr |-> [k \in 1..m |-> OtherY(k - 1)]]
    /\ gen = NoGen
    /\ last = NoRec
    /\ ret = [NoRet EXCEPT !.kind = "status", !.done = TRUE, !.success = TRUE]
    /\ cbErr = "none"
    /\ hist = NoHist
    /\ wait = NoWait
    /\ TaxiFlyIdle

NextTwo ==
    \/ Collect
    \/ CollectNext
    \/ Tick

SpecTwo == InitTwo /\ [][NextTwo]_vars

\* ------------------------------------------------------------ properties

\* a step in which cb ran: a monitor event delivered to a subscribed cb, or the
\* run that subscribe() makes; the value cb read is seen'
CbRan == (Len(notifs') < Len(notifs) /\ subs > 0) \/ subs' > subs

\* C1: kickoff() while a cycle is in flight (the status reference is not None)
\* fails: it creates no new completion status, and the controller goes on
\* referencing the same status object, whose done and success are untouched.
C1_SecondKickoffFails ==
    [][ref # None =>
          /\ nfut' = nfut
          /\ ref' \in {ref, None}
          /\ status'[ref].done \/ ~status[ref].done]_vars

\* C2: a collect() whose body starts when the cycle is not Completed (Idle, or
\* Armed with the status not done) fails with NotCompleted and yields no record.
C2_DrainNeedsCompleted ==
    (gen.st \in {"running", "finished", "failed"} /\ gen.from # "Completed")
        => (gen.err = "NotCompleted" /\ gen.i = 0 /\ last = NoRec)

\* C3: complete() never returns a null wait-handle: with no cycle in flight it
\* fails with an error.
C3_NoNullHandle == ~(ret.kind = "handle" /\ ret.h = None)

\* C4: cb resolves the completion status with success=True exactly when the
\* value it reads is "Done": reading "Done" always leaves the current status done
\* and successful, reading anything else changes no status, and no status is
\* ever changed but by a cb that read "Done".
C4_ResolvesExactlyOnDone ==
    [][/\ (CbRan /\ ref # None /\ seen' = BusyStatus_done)
             => (status'[ref].done /\ status'[ref].success)
       /\ (CbRan /\ seen' # BusyStatus_done) => status' = status
       /\ status' # status => (CbRan /\ seen' = BusyStatus_done)]_vars

C4_Witness ==
    /\ subs > 0 /\ ref # None /\ seen = BusyStatus_busy
    /\ status[ref].done /\ status[ref].success

\* C5: no missed wake-up: when a Done event has reached the cb between the
\* return of kickoff() and the call of complete(), the handle complete() returns
\* is a status that is already done.
C5_NoMissedWakeup ==
    (ret.kind = "handle" /\ ret.early) => (ret.h # None /\ status[ret.h].done)

C5_Witness ==
    /\ ret.kind = "handle" /\ ret.early /\ ret.h # None
    /\ status[ret.h].done /\ impl = "BusyFlyerDevice"

\* C6: a completion status is single-assignment: once done it keeps done and
\* success for ever, and a cb that resolves it again changes nothing and
\* raises nothing.
C6_SingleAssignment ==
    [][/\ \A f \in 1..MaxKick : status[f].done => status'[f] = status[f]
       /\ (CbRan /\ ref # None) => cbErr' = cbErr]_vars

C6_Witness == hist.reResolved /\ ref # None /\ status[ref].done /\ cbErr = "none"

\* C7: with the waveforms left alone while it runs, collect() yields exactly
\* min(populated counts) records and raises no IndexError.
C7_MinCount ==
    gen.stable =>
        /\ gen.err = "none"
        /\ gen.st = "finished" => gen.i = Min({gen.cnt[1], gen.cnt[2], gen.cnt[3]})

\* C8: once a collect() of a Completed cycle has started, a further collect()
\* in the same cycle (no kickoff() in between) fails and yields no record.
C8_DrainOncePerCycle ==
    (gen.st \in {"running", "finished", "failed"} /\ gen.again)
        => (gen.err # "none" /\ gen.i = 0 /\ last = NoRec)

\* C9: collect() yields its records in index order 0, 1, ...; the record of
\* index i carries x[i] and y[i], and for the time channel t[i] or t[i] - t0.
C9_RecordValues ==
    [][gen'.i = gen.i + 1 =>
          /\ last'.idx = gen.i
          /\ last'.data[KeyX] = xArr[gen.i + 1]
          /\ last'.data[KeyY] = yArr[gen.i + 1]
          /\ last'.data[KeyT] \in {tArr[gen.i + 1], tArr[gen.i + 1] - t0}]_vars

\* C10: whatever the instance is called, the keys of a record's data, the keys
\* of its timestamps and the keys describe_collect() announces for the instance
\* are one and the same set, on every call.
C10_SameKeys ==
    /\ last # NoRec =>
          /\ DOMAIN last.data = DOMAIN last.timestamps
          /\ DOMAIN last.data = DOMAIN DescribeCollectResult[name]
    /\ (last # NoRec /\ ret.kind = "schema") =>
          /\ DOMAIN ret.schema = {name}
          /\ DOMAIN ret.schema[name] = DOMAIN last.data

C10_Witness ==
    /\ last # NoRec /\ ret.kind = "schema"
    /\ impl = "MyFlyer" /\ name # "ifly"

\* C11: describe_collect() can be called in every state of the cycle and is
\* pure: the step that returns a schema raises nothing, returns the one schema
\* of the instance whatever the state, and changes neither the status
\* reference, the statuses, t0, the busy record and its events, the
\* subscriptions, the waveforms nor the generator.
C11_SchemaPure ==
    [][(ret'.kind = "schema" /\ ret' # ret) =>
          /\ ret'.err = "none"
          /\ ret'.schema = DescribeCollectResult
          /\ UNCHANGED <<ref, status, t0, flag, seen, notifs, putq, subs, tArr,
                         xArr, yArr, gen, last, cbErr>>]_vars

C11_Witness ==
    /\ ret.kind = "schema" /\ ret.schema = DescribeCollectResult
    /\ CycleState = "Armed" /\ subs > 0 /\ flag = BusyStatus_busy

\* C12: once the completion status has been resolved and handed out by
\* complete(), no cb is subscribed to the busy record any more; and whatever
\* the number of cycles, at most one cb is subscribed at any time.
C12_WatcherUnsubscribed ==
    /\ subs <= 1
    /\ (ret.kind = "handle" /\ ret.h # None /\ status[ret.h].done) => subs = 0

\* C13: a cb that runs when its own cycle is no longer the current one is
\* discarded: no cb ever raises in the notification context, and a monitor
\* event never resolves the status of a cycle whose own cb is not subscribed
\* yet (the cb of cycle f is the f-th subscribed).
C13_StaleDiscarded ==
    [][/\ cbErr' = "none"
       /\ \A f \in 1..MaxKick :
             (status'[f] # status[f] /\ Len(notifs') < Len(notifs)) => f <= subs]_vars

\* C14: a wait on the completion status that is given a timeout fails with
\* Timeout once the timeout has run out with the status unresolved: the caller
\* is never still waiting after that; and after a Timeout the controller is
\* still Armed on the same status, unresolved, with cb subscribed.
C14_WaitTimesOut ==
    /\ ~(pc = "wait" /\ ~status[wait.h].done /\ now > wait.since + WaitTimeout)
    /\ (ret.kind = "error" /\ ret.err = "Timeout")
          => (ref = ret.h /\ ref # None /\ ~status[ref].done /\ subs > 0)

\* C15: the plan writes to the fly record only after it has written Busy to
\* the taxi record, the put has completed and the taxi record is Done again;
\* so if the taxi phase never gets there, nothing is written to fly.
C15_FlyAfterTaxiDone ==
    [][(Len(writes') > Len(writes) /\ writes'[Len(writes')][1] = "fly") =>
          /\ writes = << <<"taxi", "Busy">> >>
          /\ busyrec["taxi"].req = "done"
          /\ busyrec["taxi"].val = "Done"]_vars

C15_Witness ==
    /\ Len(writes) = 2 /\ writes[2] = <<"fly", "Busy">>
    /\ busyrec["taxi"].req = "done" /\ busyrec["taxi"].val = "Done"

\* C16: a phase that has not completed within its bound makes the plan fail
\* with PhaseTimeout: the plan is never still waiting for a phase after the
\* bound; and when it is the taxi phase that timed out, fly was not written.
C16_PhaseTimeout ==
    /\ \A ch \in {"taxi", "fly"} :
          ~(tpc = "wait_" \o ch /\ busyrec[ch].req # "done"
            /\ now > since + PhaseBound)
    /\ tpc = "PhaseTimeout_taxi" => \A i \in 1..Len(writes) : writes[i][1] # "fly"

\* C17: the plan collects nothing: all it writes is Busy, to taxi and then to
\* fly, once each, a complete run having written exactly these two; it never
\* writes Done, and it starts no collect() and yields no record.
C17_TwoWritesNoData ==
    /\ Len(writes) <= 2
    /\ \A i \in 1..Len(writes) : writes[i] = <<Phases[i], "Busy">>
    /\ tpc = "done" => Len(writes) = 2
    /\ gen = NoGen /\ last = NoRec

C17_Witness == tpc = "done" /\ writes = << <<"taxi", "Busy">>, <<"fly", "Busy">> >>

\* C18: collect() returns the status reference to None only after its last
\* record: while a drain of a Completed cycle still has records to yield, the
\* controller still references the cycle's status, which is done.
C18_ResetAfterLast ==
    (gen.st = "running" /\ gen.from = "Completed" /\ gen.i < gen.n)
        => (ref # None /\ status[ref].done)

\* C19: in every record collect() yields, the timestamp of every key is the
\* time waveform's value at the record's index, not the clock at emission.
C19_TimestampsFromBuffer ==
    [][gen'.i = gen.i + 1 =>
          \A k \in DOMAIN last'.timestamps :
              last'.timestamps[k] = tArr[gen.i + 1]]_vars

\* C20: kickoff() runs its statements in this order: the status is created,
\* t0 is captured, cb is subscribed, Busy is put (pc names the statement about
\* to run); so when Busy is put the cb of this cycle, the nfut-th, is
\* subscribed already.
C20_ArmOrder ==
    [][/\ (pc = "idle" /\ pc' # pc) => (nfut' = nfut + 1 /\ pc' = "t0")
       /\ (pc = "t0" /\ pc' # pc) => pc' = "subscribe"
       /\ (pc = "subscribe" /\ pc' # pc) => pc' = "put"
       /\ putq' > putq => subs = nfut]_vars

\* C21: a completion status is resolved only after the controller has done
\* that cycle's operation: since the status was created, the put(Busy) has
\* been processed by the IOC and the controller has then set the record back
\* to Done.  A kickoff() while the record still reads Done never resolves
\* the new status before that.
C21_ResolvedAfterOperation ==
    [][\A f \in 1..MaxKick : (status'[f].done /\ ~status[f].done) => hist.ran]_vars

\* C22: liveness: with the controller setting the record back to Done and the
\* monitor events delivered, the completion status of a kickoff() is in the
\* end resolved with success=True for as long as it is the current one,
\* however the put, the subscription and the controller's Done interleave.
C22_EventuallyResolved ==
    \A f \in 1..MaxKick :
        (ref = f) ~> ((status[f].done /\ status[f].success) \/ ref # f)

C22_Witness ==
    /\ hist.ran /\ hist.doneSinceArm /\ ~hist.reResolved
    /\ ref # None /\ status[ref].done /\ status[ref].success

\* C23: the number of records of a collect() is the count taken when its body
\* starts: with the three counts equal then, whatever the controller appends
\* to or removes from the waveforms while the records are consumed, the
\* generator raises no IndexError and ends after exactly that many records.
C23_SnapshotCount ==
    (gen.cnt[1] = gen.cnt[2] /\ gen.cnt[2] = gen.cnt[3]) =>
        /\ gen.err = "none"
        /\ gen.st = "finished" => gen.i = gen.cnt[1]

\* C24: all cb does is resolve the status: a step in which cb runs, on any
\* event, changes neither the status reference, t0, the busy record, the puts
\* under way nor the waveforms, starts no collect() and advances none, and
\* changes the subscriptions by no more than the subscribe() that ran it.
C24_CbOnlyResolves ==
    [][CbRan =>
          /\ UNCHANGED <<ref, nfut, t0, flag, putq, tArr, xArr, yArr, gen, last>>
          /\ subs' = IF Len(notifs') < Len(notifs) THEN subs ELSE subs + 1]_vars

C24_Witness ==
    /\ hist.doneSinceArm /\ ref # None /\ status[ref].done
    /\ gen = NoGen /\ putq = 0 /\ subs = 1

\* a step of one of the flyer's methods: kickoff(), complete(),
\* describe_collect(), collect() or a next() on its generator
MethodStep ==
    \/ pc' # pc \/ ret' # ret
    \/ [gen' EXCEPT !.stable = TRUE] # [gen EXCEPT !.stable = TRUE]
    \/ ref' # ref \/ nfut' # nfut \/ subs' # subs

\* C25: the flyer changes the EPICS side by the put(Busy) of kickoff() alone:
\* a put is requested only by that statement, one at a time, and no step of
\* any method changes the busy record's value (so none sets it to Done), its
\* monitor events or a waveform.
C25_WritesOnlyStart ==
    [][/\ putq' > putq => (pc = "put" /\ pc' # pc /\ putq' = putq + 1)
       /\ MethodStep => UNCHANGED <<flag, notifs, tArr, xArr, yArr>>]_vars

C25_Witness ==
    /\ gen.st = "finished" /\ gen.from = "Completed" /\ gen.i > 0
    /\ hist.ran /\ flag = BusyStatus_done /\ putq = 0

\* C26: kickoff() does not wait: the status it returns is done with
\* success=True whatever the busy record's state, and the completion status
\* is resolved by cb in a monitor delivery only, never in a step of kickoff()
\* on the caller's thread.
C26_KickoffNeverResolves ==
    [][/\ (ret'.kind = "status" /\ ret' # ret) => (ret'.done /\ ret'.success)
       /\ status' # status => (Len(notifs') < Len(notifs) /\ pc' = pc)]_vars

\* C27: termination of the plan: with each busy record set back to Done after
\* Busy was written to it, a run of the plan that has started ends, and it
\* ends with both phases started and completed, taxi before fly.
C27_PlanTerminates ==
    (tpc = "before_taxi") ~>
        (/\ tpc = "done"
         /\ writes = << <<"taxi", "Busy">>, <<"fly", "Busy">> >>
         /\ \A ch \in {"taxi", "fly"} : busyrec[ch].req = "done")

C27_Witness ==
    /\ tpc = "done" /\ Len(writes) = 2
    /\ \A ch \in {"taxi", "fly"} :
          busyrec[ch].req = "done" /\ busyrec[ch].val = BusyStatus_done

\* C28: collect() is lazy: the call that hands out the generator changes
\* neither the status reference nor any status (a Completed cycle stays
\* Completed), and the reference goes to None in one step only: the first
\* next() on a generator; so a generator never consumed never makes the
\* controller Idle.
C28_CollectLazy ==
    [][/\ (gen'.st = "created" /\ ret'.kind = "generator"
              /\ (ret' # ret \/ gen' # gen))
             => UNCHANGED <<ref, status, nfut, t0, subs>>
       /\ (ref # None /\ ref' = None)
             => (gen.st = "created" /\ gen'.st \in {"running", "finished", "failed"})]_vars

C28_Witness ==
    /\ gen.st = "created" /\ ret.kind = "generator"
    /\ CycleState = "Completed" /\ hist.ran

====
